---- MODULE Spec2Model ----
(***************************************************************************)
(* Model of the bodet-scoreboard bridge: the frame decoder and message     *)
(* dispatcher of src/src/main.rs and the query server of                   *)
(* src/src/web_server.rs.                                                  *)
(*                                                                         *)
(* SpecCodec exercises the pure frame functions on bounded inputs, SpecMsg  *)
(* the message decoder on framed payloads of the four types.               *)
(* SpecIngest runs the ingest connections beside one query connection and  *)
(* one state writer, SpecTruncated the ingest connections on frames whose  *)
(* payload is cut short.  SpecStore runs the state writers against the     *)
(* query connections that serve /api/state, SpecQuery the query            *)
(* connections on both routes.  SpecListen runs both accept loops with     *)
(* the ingest and the query connections.                                   *)
(***************************************************************************)
EXTENDS Integers, Sequences, FiniteSets, TLC

VARIABLES
    cStep,      \* codec harness: "idle", "built", "mutated", "raw", "parsed"
    cIn,        \* codec harness: the (address, ctrl, payload) the chunk was built from
    cData,      \* codec harness: the chunk handed to parse_raw_data
    cMut,       \* codec harness: the single-byte change applied to the chunk
    cRes,       \* codec harness: the result of parse_raw_data(cData)
    cLrc,       \* codec harness: compute_lrc_bytes(cData), -1 before it is computed
    devMode,    \* main: started with the argument "dev"
    connPc,     \* ingest connection -> position of its handle_client thread
    connLog,    \* ingest connection -> log_file is Some ("open") or None ("none")
    connLine,   \* ingest connection -> the last line appended to its session file
    connChunk,  \* ingest connection -> the bytes of its last read, &buffer[..n]
    connOut,    \* ingest connection -> what decoding its last read produced
    gameState,  \* the Option<BasketballProtocol> behind the mutex
    lock,       \* the task that holds the mutex, or NoHolder
    qPc,        \* query connection -> position of its handle_http_request thread
    qReq,       \* query connection -> first line of the request it read
    qBody,      \* query connection -> the response body it built
    aPc,        \* state writer -> its position
    mainListener,   \* main: position of the accept loop on port 4001
    webListener     \* WebServer::start: position of its accept loop

codecVars == <<cStep, cIn, cData, cMut, cRes, cLrc>>
ingestVars == <<devMode, connPc, connLog, connLine, connChunk, connOut>>
storeVars == <<gameState, lock, aPc>>
queryVars == <<qPc, qReq, qBody>>
listenVars == <<mainListener, webListener>>
vars == <<codecVars, ingestVars, storeVars, queryVars, listenVars>>

(***************************************************************************)
(* Bounds.                                                                 *)
(***************************************************************************)
\* Longest payload of a constructed frame.
MaxPayload == 2
\* Longest raw (unframed) chunk handed to the decoder.
MaxRawLen == 5

\* Longest byte sequence handed to compute_lrc_bytes on its own.
MaxLrcLen == 3

\* Most bytes a typed payload carries beyond the minimum of its type.
MaxExtra == 1

\* Ingest connections accepted by main.
NumConns == 1
\* Query connections accepted by WebServer::start.
NumQueries == 2
\* Tasks applying a Score update to the shared state.
NumAppliers == 2

\* Byte values the constructed frames draw from.  XOR acts bit by bit, so the
\* set has values that differ in bit 5 only (17/49), bit 6 only (49/113),
\* bit 7 only (49/177) and in the low bits (3, which is also ETX).
ByteVals == {3, 17, 49, 113, 177}
\* Values a single byte of a built chunk is changed to.
FlipVals == ByteVals \cup {1, 2}
\* Byte values of raw chunks: the three sentinels and two ordinary bytes.
RawVals == {1, 2, 3, 49, 177}
\* Byte values of the sequences handed to compute_lrc_bytes on its own.
LrcVals == ByteVals \cup {0, 1, 31, 32, 128, 255}

\* All sequences over S of length lo..hi.
SeqsOf(S, lo, hi) == UNION {[1..n -> S] : n \in lo..hi}

(***************************************************************************)
(* 8-bit arithmetic.                                                       *)
(***************************************************************************)
RECURSIVE BitXor(_, _)
\* a ^ b on naturals (u8 `^=`).
BitXor(a, b) ==
    IF a = 0 /\ b = 0 THEN 0
    ELSE (((a % 2) + (b % 2)) % 2) + 2 * BitXor(a \div 2, b \div 2)

RECURSIVE BitAnd(_, _)
\* a & b on naturals (u8 `&`).
BitAnd(a, b) ==
    IF a = 0 \/ b = 0 THEN 0
    ELSE ((a % 2) * (b % 2)) + 2 * BitAnd(a \div 2, b \div 2)

\* u8::wrapping_add
wrapping_add(a, b) == (a + b) % 256

(***************************************************************************)
(* Protocol control characters.                                            *)
(***************************************************************************)
SOH == 1
STX == 2
ETX == 3

(***************************************************************************)
(* ProtocolFrame and its checksum.                                         *)
(***************************************************************************)
ProtocolFrame(soh, address, stx, ctrl, message, etx, lrc) ==
    [soh |-> soh, address |-> address, stx |-> stx, ctrl |-> ctrl,
     message |-> message, etx |-> etx, lrc |-> lrc]

\* The frame field of a result that carries no frame.
NoFrame == ProtocolFrame(0, 0, 0, 0, << >>, 0, 0)

RECURSIVE XorFold(_, _)
\* for &b in bytes { xor ^= b; }
XorFold(bytes, xor) ==
    IF bytes = << >> THEN xor
    ELSE XorFold(Tail(bytes), BitXor(xor, Head(bytes)))

\* Mutant: a value below 32 is not raised by 32.
compute_lrc_bytes_no_floor(bytes) ==
    LET xor == XorFold(bytes, 0)
    IN  BitAnd(xor, 127)

\* Mutant: the mask keeps all eight bits.
compute_lrc_bytes_mask8(bytes) ==
    LET xor == XorFold(bytes, 0)
        lrc == BitAnd(xor, 255)
    IN  IF lrc < 32 THEN wrapping_add(lrc, 32) ELSE lrc

compute_lrc_bytes(bytes) ==
    LET xor == XorFold(bytes, 0)
        lrc == BitAnd(xor, 127)
    IN  IF lrc < 32 THEN wrapping_add(lrc, 32) ELSE lrc

\* Mutant: the leading SOH is folded into the checksum input.
lrc_input_bytes_with_soh(frame) ==
    <<frame.soh, frame.address, frame.stx, frame.ctrl>> \o frame.message \o <<frame.etx>>

\* Address, STX, CTRL, Message..., ETX (SOH excluded, ETX included).
lrc_input_bytes(frame) ==
    <<frame.address, frame.stx, frame.ctrl>> \o frame.message \o <<frame.etx>>

expected_lrc(frame) == compute_lrc_bytes(lrc_input_bytes(frame))

\* Mutant: every stored checksum is taken as valid.
validate_lrc_always(frame) == TRUE

validate_lrc(frame) == expected_lrc(frame) = frame.lrc

(***************************************************************************)
(* parse_raw_data.  Rust indexes from 0 and aborts the thread (panics) on  *)
(* an index or a slice range outside the chunk.                            *)
(***************************************************************************)
InBounds(data, i) == 0 <= i /\ i < Len(data)
\* data[i], 0-based; only used where InBounds(data, i) has been checked.
At(data, i) == data[i + 1]
\* data[from..to].to_vec(); only used where SliceOk(data, from, to).
Slice(data, from, to) == SubSeq(data, from + 1, to)
SliceOk(data, from, to) == from <= to /\ to <= Len(data)

Ok(frame) == [kind |-> "Ok", err |-> "", frame |-> frame]
Err(msg) == [kind |-> "Err", err |-> msg, frame |-> NoFrame]
\* The thread panicked: no value is returned.
Panic == [kind |-> "Panic", err |-> "", frame |-> NoFrame]

ErrTooShort == "Data too short to be a valid frame"
ErrSOH == "Invalid SOH"
ErrSTX == "Invalid STX"
ErrETX == "Invalid ETX"
ErrLRC == "LRC validation failed"

\* Lines 85-107: the fields are taken and the checksum validated.
BuildAndValidate(data) ==
    LET n == Len(data) IN
    IF ~(InBounds(data, 0) /\ InBounds(data, 1) /\ InBounds(data, 2)
            /\ InBounds(data, 3)) THEN Panic
    ELSE IF ~SliceOk(data, 4, n - 2) THEN Panic
    ELSE IF ~(InBounds(data, n - 2) /\ InBounds(data, n - 1)) THEN Panic
    ELSE LET frame == ProtocolFrame(At(data, 0), At(data, 1), At(data, 2),
                                    At(data, 3), Slice(data, 4, n - 2),
                                    At(data, n - 2), At(data, n - 1))
         IN  IF ~validate_lrc(frame) THEN Err(ErrLRC) ELSE Ok(frame)

\* Mutant: the frame-start sentinel is not checked.
CheckSentinels_no_stx(data) ==
    LET n == Len(data) IN
    IF ~InBounds(data, 0) THEN Panic
    ELSE IF At(data, 0) # SOH THEN Err(ErrSOH)
    ELSE IF ~InBounds(data, n - 2) THEN Panic
    ELSE IF At(data, n - 2) # ETX THEN Err(ErrETX)
    ELSE BuildAndValidate(data)

\* Mutant: the frame-end sentinel is checked before the other two.
CheckSentinels_etx_first(data) ==
    LET n == Len(data) IN
    IF ~InBounds(data, n - 2) THEN Panic
    ELSE IF At(data, n - 2) # ETX THEN Err(ErrETX)
    ELSE IF ~InBounds(data, 0) THEN Panic
    ELSE IF At(data, 0) # SOH THEN Err(ErrSOH)
    ELSE IF ~InBounds(data, 2) THEN Panic
    ELSE IF At(data, 2) # STX THEN Err(ErrSTX)
    ELSE BuildAndValidate(data)

\* Lines 73-83: the three sentinel checks, in order.
CheckSentinels(data) ==
    LET n == Len(data) IN
    IF ~InBounds(data, 0) THEN Panic
    ELSE IF At(data, 0) # SOH THEN Err(ErrSOH)
    ELSE IF ~InBounds(data, 2) THEN Panic
    ELSE IF At(data, 2) # STX THEN Err(ErrSTX)
    ELSE IF ~InBounds(data, n - 2) THEN Panic
    ELSE IF At(data, n - 2) # ETX THEN Err(ErrETX)
    ELSE BuildAndValidate(data)

\* Mutant: the length check is off by two (chunks of 3 and 4 bytes get past it).
parse_raw_data_short_check(data) ==
    IF Len(data) < 3 THEN Err(ErrTooShort)
    ELSE CheckSentinels(data)

parse_raw_data(data) ==
    IF Len(data) < 5 THEN Err(ErrTooShort)
    ELSE CheckSentinels(data)

(***************************************************************************)
(* Status words and parse_valid_frame.  The function returns nothing: what *)
(* it decodes is the message struct it builds and the lines it logs, and   *)
(* that is what the operator yields.                                       *)
(***************************************************************************)
\* (byte & (1 << k)) != 0
BitSet(byte, k) == BitAnd(byte, 2 ^ k) # 0

\* Mutant: the clock-off flag is read from bit 0.
StatusWord18_from_byte_bit0(byte) ==
    [clock_type |-> BitSet(byte, 0),
     game_clock_off |-> BitSet(byte, 0),
     horn_on |-> BitSet(byte, 2),
     possession_in_tenth |-> BitSet(byte, 4),
     new_match |-> BitSet(byte, 6),
     b7 |-> BitSet(byte, 7)]

StatusWord18_from_byte(byte) ==
    [clock_type |-> BitSet(byte, 0),
     game_clock_off |-> BitSet(byte, 1),
     horn_on |-> BitSet(byte, 2),
     possession_in_tenth |-> BitSet(byte, 4),
     new_match |-> BitSet(byte, 6),
     b7 |-> BitSet(byte, 7)]

\* Mutant: the tenths flag is read from bit 3.
StatusWord50_from_byte_bit3(byte) ==
    [status_possession_timer |-> BitSet(byte, 1),
     status_possession_horn |-> BitSet(byte, 2),
     status_of_shot_clock |-> BitSet(byte, 3),
     possession_timer_in_tenths |-> BitSet(byte, 3),
     b7 |-> BitSet(byte, 7)]

StatusWord50_from_byte(byte) ==
    [status_possession_timer |-> BitSet(byte, 1),
     status_possession_horn |-> BitSet(byte, 2),
     status_of_shot_clock |-> BitSet(byte, 3),
     possession_timer_in_tenths |-> BitSet(byte, 4),
     b7 |-> BitSet(byte, 7)]

\* A warn!() line and an early return: nothing is decoded.
Warned(what) == [kind |-> what, message |-> << >>, status |-> << >>, display |-> << >>]
\* The decoded struct, its status word and the strings of the info!() lines
\* (each a sequence of character codes; `b as char` keeps the code).
Decoded(what, message, status, display) ==
    [kind |-> what, message |-> message, status |-> status, display |-> display]

\* Kinds of outcome of parse_valid_frame.
WarnNoType == "Message too short to determine type"
Warn18 == "Message Type 18 too short"
Warn30 == "Message Type 30 too short"
Warn31 == "Message Type 31 too short"
Warn50 == "Message Type 50 too short"
WarnUnknown == "Unknown message type"
RecognisedKinds == {"Message18", "Message30", "Message31", "Message50"}

\* Lines 258-262: "Game Clock is OFF" and "Game Clock is ON", by their last word.
ClockOffLine == <<79, 70, 70>>
ClockOnLine == <<79, 78>>

\* Lines 223-289.
ParseMessage18(m) ==
    IF Len(m) < 14 THEN Warned(Warn18)
    ELSE LET message == [id_1 |-> At(m, 0), id_2 |-> At(m, 1),
                         status_word |-> At(m, 2), sports_id |-> At(m, 3),
                         minutes_1 |-> At(m, 4), minutes_2 |-> At(m, 5),
                         seconds_1 |-> At(m, 6), seconds_2 |-> At(m, 7),
                         home_time_outs |-> At(m, 8), guest_time_outs |-> At(m, 9),
                         period |-> At(m, 12)]
             status_word == StatusWord18_from_byte(message.status_word)
             clock == IF status_word.game_clock_off THEN ClockOffLine
                      ELSE ClockOnLine
             time == IF status_word.possession_in_tenth
                     THEN <<message.minutes_1, message.minutes_2, 46, message.seconds_2>>
                     ELSE <<message.minutes_1, message.minutes_2, 58,
                            message.seconds_1, message.seconds_2>>
         IN  Decoded("Message18", message, status_word,
                     <<time, <<message.home_time_outs>>, <<message.guest_time_outs>>,
                       <<message.period>>, clock>>)

\* Lines 291-322.
ParseMessage30(m) ==
    IF Len(m) < 9 THEN Warned(Warn30)
    ELSE LET message == [id_1 |-> At(m, 0), id_2 |-> At(m, 1), sports_id |-> At(m, 2),
                         home_score_1 |-> At(m, 3), home_score_2 |-> At(m, 4),
                         home_score_3 |-> At(m, 5), guest_score_1 |-> At(m, 6),
                         guest_score_2 |-> At(m, 7), guest_score_3 |-> At(m, 8)]
         IN  Decoded("Message30", message, << >>,
                     << <<message.home_score_1, message.home_score_2, message.home_score_3>>,
                        <<message.guest_score_1, message.guest_score_2,
                          message.guest_score_3>> >>)

\* Lines 325-357.
ParseMessage31(m) ==
    IF Len(m) < 11 THEN Warned(Warn31)
    ELSE LET message == [id_1 |-> At(m, 0), id_2 |-> At(m, 1), sports_id |-> At(m, 2),
                         home_fouls |-> At(m, 4), guest_fouls |-> At(m, 6),
                         number_player_on_line_1 |-> At(m, 7),
                         number_player_on_line_2 |-> At(m, 8),
                         number_of_faults_of_player |-> At(m, 9),
                         team_of_player |-> At(m, 10)]
         IN  Decoded("Message31", message, << >>,
                     << <<message.home_fouls>>, <<message.guest_fouls>>,
                        <<message.number_player_on_line_1>>,
                        <<message.number_player_on_line_2>>,
                        <<message.number_of_faults_of_player>>,
                        <<message.team_of_player>> >>)

\* Mutant: a shot-clock payload needs six bytes.
ParseMessage50_min6(m) ==
    IF Len(m) < 6 THEN Warned(Warn50)
    ELSE LET message == [id_1 |-> At(m, 0), id_2 |-> At(m, 1),
                         status_word |-> At(m, 2),
                         seconds_1 |-> At(m, 3), seconds_2 |-> At(m, 4)]
             status_word == StatusWord50_from_byte(message.status_word)
             shot == IF status_word.possession_timer_in_tenths
                     THEN <<message.seconds_1, 46, message.seconds_2>>
                     ELSE <<message.seconds_1, message.seconds_2>>
         IN  Decoded("Message50", message, status_word, <<shot>>)

\* Lines 360-400.
ParseMessage50(m) ==
    IF Len(m) < 5 THEN Warned(Warn50)
    ELSE LET message == [id_1 |-> At(m, 0), id_2 |-> At(m, 1),
                         status_word |-> At(m, 2),
                         seconds_1 |-> At(m, 3), seconds_2 |-> At(m, 4)]
             status_word == StatusWord50_from_byte(message.status_word)
             shot == IF status_word.possession_timer_in_tenths
                     THEN <<message.seconds_1, 46, message.seconds_2>>
                     ELSE <<message.seconds_1, message.seconds_2>>
         IN  Decoded("Message50", message, status_word, <<shot>>)

\* Mutant: the catch-all arm is missing and an unmatched tag falls into the
\* score arm.
parse_valid_frame_no_default(frame) ==
    LET m == frame.message IN
    IF Len(m) < 2 THEN Warned(WarnNoType)
    ELSE IF At(m, 0) = 49 /\ At(m, 1) = 56 THEN ParseMessage18(m)
    ELSE IF At(m, 0) = 51 /\ At(m, 1) = 49 THEN ParseMessage31(m)
    ELSE IF At(m, 0) = 53 /\ At(m, 1) = 48 THEN ParseMessage50(m)
    ELSE ParseMessage30(m)

\* match (frame.message[0], frame.message[1]): 0x31 0x38, 0x33 0x30,
\* 0x33 0x31, 0x35 0x30, _.
parse_valid_frame(frame) ==
    LET m == frame.message IN
    IF Len(m) < 2 THEN Warned(WarnNoType)
    ELSE IF At(m, 0) = 49 /\ At(m, 1) = 56 THEN ParseMessage18(m)
    ELSE IF At(m, 0) = 51 /\ At(m, 1) = 48 THEN ParseMessage30(m)
    ELSE IF At(m, 0) = 51 /\ At(m, 1) = 49 THEN ParseMessage31(m)
    ELSE IF At(m, 0) = 53 /\ At(m, 1) = 48 THEN ParseMessage50(m)
    ELSE Warned(WarnUnknown)

\* Nothing was handed to parse_valid_frame.
NotDispatched == Warned("")

\* handle_client, lines 520-538: the chunk is parsed; a frame goes to
\* parse_valid_frame, an error is logged.  A panic in parse_raw_data unwinds
\* the thread.
DecodeChunk(data) ==
    LET res == parse_raw_data(data) IN
    [res |-> res,
     dispatched |-> res.kind = "Ok",
     frame |-> IF res.kind = "Ok" THEN res.frame ELSE NoFrame,
     out |-> IF res.kind = "Ok" THEN parse_valid_frame(res.frame) ELSE NotDispatched]

(***************************************************************************)
(* The codec harness: a sender builds a frame as the wire format           *)
(* prescribes, or hands over raw bytes; one byte of a built chunk may be   *)
(* changed; the chunk is decoded as handle_client decodes a read.          *)
(***************************************************************************)
NoInput == [kind |-> "none", address |-> 0, ctrl |-> 0, payload |-> << >>]
NoMut == [pos |-> -1, old |-> 0, new |-> 0]
NoDecode == [res |-> Err(""), dispatched |-> FALSE, frame |-> NoFrame, out |-> NotDispatched]

\* [SOH][ADDRESS][STX][CTRL][PAYLOAD...][ETX][LRC]
WireChunk(address, ctrl, payload) ==
    <<SOH, address, STX, ctrl>> \o payload
        \o <<ETX, compute_lrc_bytes(<<address, STX, ctrl>> \o payload \o <<ETX>>)>>

CodecInit ==
    /\ cStep = "idle"
    /\ cIn = NoInput
    /\ cData = << >>
    /\ cMut = NoMut
    /\ cRes = NoDecode
    /\ cLrc = -1

CodecOnly == UNCHANGED <<ingestVars, storeVars, queryVars, listenVars>>

BuildFrame ==
    /\ CodecOnly
    /\ cStep = "idle"
    /\ \E address \in ByteVals, ctrl \in ByteVals, payload \in SeqsOf(ByteVals, 0, MaxPayload) :
          /\ cIn' = [kind |-> "frame", address |-> address, ctrl |-> ctrl,
                     payload |-> payload]
          /\ cData' = WireChunk(address, ctrl, payload)
    /\ cStep' = "built"
    /\ UNCHANGED <<cMut, cRes, cLrc>>

RawChunk ==
    /\ CodecOnly
    /\ cStep = "idle"
    /\ \E data \in SeqsOf(RawVals, 1, MaxRawLen) :
          cData' = data
    /\ cIn' = [NoInput EXCEPT !.kind = "raw"]
    /\ cStep' = "raw"
    /\ UNCHANGED <<cMut, cRes, cLrc>>

\* One byte of the built chunk is changed to a different value; the trailing
\* checksum is left as it was.
FlipByte ==
    /\ CodecOnly
    /\ cStep = "built"
    /\ \E pos \in 0..(Len(cData) - 2), new \in FlipVals :
          /\ new # At(cData, pos)
          /\ cMut' = [pos |-> pos, old |-> At(cData, pos), new |-> new]
          /\ cData' = [cData EXCEPT ![pos + 1] = new]
    /\ cStep' = "mutated"
    /\ UNCHANGED <<cIn, cRes, cLrc>>

Decode ==
    /\ CodecOnly
    /\ cStep \in {"built", "mutated", "raw"}
    /\ cRes' = DecodeChunk(cData)
    /\ cStep' = "parsed"
    /\ UNCHANGED <<cIn, cData, cMut, cLrc>>

ComputeLrc ==
    /\ CodecOnly
    /\ cStep = "idle"
    /\ \E bytes \in SeqsOf(LrcVals, 0, MaxLrcLen) :
          /\ cData' = bytes
          /\ cLrc' = compute_lrc_bytes(bytes)
    /\ cIn' = [NoInput EXCEPT !.kind = "bytes"]
    /\ cStep' = "summed"
    /\ UNCHANGED <<cMut, cRes>>

CodecNext == BuildFrame \/ RawChunk \/ FlipByte \/ Decode \/ ComputeLrc

(***************************************************************************)
(* The ingest server: main's accept loop and handle_client.                *)
(***************************************************************************)
Conns == 1..NumConns

\* The chunks a peer sends in SpecIngest: one frame of each message type, a
\* score frame cut below its minimum, two unknown tags, a frame with a wrong
\* checksum, a chunk of two bytes, and five bytes with all sentinels in place.
ScorePayload == <<51, 48, 53, 49, 50, 48, 48, 57, 53>>
TimePayload == <<49, 56, 2, 53, 49, 48, 48, 48, 50, 51, 32, 32, 52, 32>>
FoulsPayload == <<51, 49, 53, 32, 52, 32, 51, 48, 55, 50, 72>>
ShotPayload == <<53, 48, 16, 49, 52>>
UnknownPayload == <<57, 57, 49>>
NearMissPayload == <<51, 50, 53, 49, 50, 48, 48, 57, 53>>
IngestChunks ==
    {WireChunk(127, 71, payload) :
        payload \in {ScorePayload, TimePayload, FoulsPayload, ShotPayload,
                     UnknownPayload, NearMissPayload, <<51, 48, 53>>}}
    \cup {[WireChunk(127, 71, ScorePayload) EXCEPT ![5] = 52],
          <<1, 127>>,
          <<1, 127, 2, 3, 32>>}

\* The chunks a peer sends in SpecListen: a valid frame, a frame with a wrong
\* checksum, and five bytes with all sentinels in place.
ListenChunks ==
    {WireChunk(127, 71, ScorePayload),
     [WireChunk(127, 71, ScorePayload) EXCEPT ![5] = 52],
     <<1, 127, 2, 3, 32>>}

\* The chunks a peer sends in SpecTruncated: valid frames whose payload is one
\* of the four messages, padded, cut after each of its first n bytes.
Padded(payload) == payload \o [i \in 1..MaxExtra |-> 32]
Prefixes(payload) == {SubSeq(payload, 1, n) : n \in 0..Len(payload)}
TruncatedChunks ==
    {WireChunk(127, 71, payload) :
        payload \in Prefixes(Padded(TimePayload)) \cup Prefixes(Padded(ScorePayload))
                       \cup Prefixes(Padded(FoulsPayload))
                       \cup Prefixes(Padded(ShotPayload))}

\* The frames a peer sends in SpecSplit, each whole or cut in two at any point
\* between two reads: a shot-clock frame; a score frame; a frame whose payload
\* holds ETX followed by the checksum of the bytes before it; a frame whose
\* payload holds
\* the head SOH, address, STX, control byte of a frame of its own after a byte
\* that brings the XOR of the bytes before that head to 0; and a shot-clock
\* frame whose control byte has the value of ETX.
EtxInPayload == <<53, 48, 3, compute_lrc_bytes(<<127, 2, 71, 53, 48, 3>>), 52>>
InnerFrame == WireChunk(127, 71, <<53, 48, 16, 57, 57>>)
SohInPayload == <<59>> \o SubSeq(InnerFrame, 1, Len(InnerFrame) - 2)
SplitFrames ==
    {WireChunk(127, 71, ShotPayload),
     WireChunk(127, 71, ScorePayload),
     WireChunk(127, 71, EtxInPayload),
     WireChunk(127, 71, SohInPayload),
     WireChunk(127, 3, ShotPayload)}

\* The first n bytes of a frame, 0 < n < len, and the bytes after them.
IsHeadOf(head, frame) ==
    /\ Len(head) >= 1 /\ Len(head) < Len(frame)
    /\ SubSeq(frame, 1, Len(head)) = head
HeadsOf(frame) == {SubSeq(frame, 1, n) : n \in 1..(Len(frame) - 1)}
RestOf(frame, head) == SubSeq(frame, Len(head) + 1, Len(frame))
SplitChunks ==
    SplitFrames
    \cup UNION {HeadsOf(frame) : frame \in SplitFrames}
    \cup UNION {{RestOf(frame, head) : head \in HeadsOf(frame)} :
                   frame \in SplitFrames}

\* What the next read returns after a read that returned prev: the rest of a
\* frame whose head prev is, or else a whole frame or the head of one.
SplitNext(prev) ==
    LET cut == {frame \in SplitFrames : IsHeadOf(prev, frame)} IN
    IF cut # {} THEN {RestOf(frame, prev) : frame \in cut}
    ELSE SplitFrames \cup UNION {HeadsOf(frame) : frame \in SplitFrames}

AllChunks == IngestChunks \cup TruncatedChunks \cup SplitChunks

\* {:02X}: one byte as two upper-case hexadecimal digits.
HexDigit(n) == IF n < 10 THEN 48 + n ELSE 55 + n
HexByte(b) == <<HexDigit(b \div 16), HexDigit(b % 16)>>

RECURSIVE HexList(_)
\* The elements of {:02X?} on a slice, separated by ", ".
HexList(bytes) ==
    IF bytes = << >> THEN << >>
    ELSE IF Len(bytes) = 1 THEN HexByte(Head(bytes))
    ELSE HexByte(Head(bytes)) \o <<44, 32>> \o HexList(Tail(bytes))

\* format!("{:02X?}\n", &buffer[..n])
HexLine(bytes) == <<91>> \o HexList(bytes) \o <<93, 10>>

\* What handle_client computes from each chunk a peer can send.
DecodedChunks == [chunk \in AllChunks |-> DecodeChunk(chunk)]
LoggedLines == [chunk \in AllChunks |-> HexLine(chunk)]

IngestOnly == UNCHANGED <<codecVars, storeVars, queryVars, listenVars>>

\* Mutant: the accept loop is left when accept fails.
AfterAcceptError_break == "stopped"

\* main, lines 442-444: the Err arm logs the error and the for loop goes on.
AfterAcceptError == "accepting"

\* main, line 432: listener.incoming() yields an Err.
MainAcceptError ==
    /\ UNCHANGED <<codecVars, ingestVars, storeVars, queryVars, webListener>>
    /\ mainListener = "accepting"
    /\ mainListener' = "failed"

\* main, lines 442-444: the accept error is logged.
MainAcceptLogged ==
    /\ UNCHANGED <<codecVars, ingestVars, storeVars, queryVars, webListener>>
    /\ mainListener = "failed"
    /\ mainListener' = AfterAcceptError

\* main, lines 432-441: an accepted stream gets its own thread.
IngestAccept(c) ==
    /\ IngestOnly
    /\ mainListener = "accepting"
    /\ connPc[c] = "unborn"
    /\ connPc' = [connPc EXCEPT ![c] = "start"]
    /\ UNCHANGED <<devMode, connLog, connLine, connChunk, connOut>>

\* handle_client, lines 451-455: peer_addr() or set_read_timeout() fails and
\* the function returns the error.
ConnSetupFail(c) ==
    /\ IngestOnly
    /\ connPc[c] = "start"
    /\ connPc' = [connPc EXCEPT ![c] = "setup_error"]
    /\ UNCHANGED <<devMode, connLog, connLine, connChunk, connOut>>

\* handle_client, lines 460-495: the session file is opened when logging is
\* on; a failure to create the directory or to open the file leaves None.
ConnSetup(c) ==
    /\ IngestOnly
    /\ connPc[c] = "start"
    /\ \E opened \in (IF devMode THEN {FALSE} ELSE BOOLEAN) :
          connLog' = [connLog EXCEPT ![c] = IF opened THEN "open" ELSE "none"]
    /\ connPc' = [connPc EXCEPT ![c] = "reading"]
    /\ UNCHANGED <<devMode, connLine, connChunk, connOut>>

\* Mutant: a failed write to the session file ends the thread before the
\* chunk is decoded.
ReadChunkFrom_log_fatal(c, chunks) ==
    /\ IngestOnly
    /\ connPc[c] = "reading"
    /\ \E chunk \in chunks,
          written \in (IF connLog[c] = "open" THEN BOOLEAN ELSE {FALSE}) :
          LET failed == connLog[c] = "open" /\ ~written IN
          /\ connLine' = [connLine EXCEPT ![c] =
                             IF connLog[c] = "open" /\ written
                             THEN LoggedLines[chunk] ELSE << >>]
          /\ connChunk' = [connChunk EXCEPT ![c] = chunk]
          /\ connOut' = [connOut EXCEPT ![c] =
                            IF failed THEN NoDecode ELSE DecodedChunks[chunk]]
          /\ connPc' = [connPc EXCEPT ![c] =
                           IF failed THEN "log_error"
                           ELSE IF DecodedChunks[chunk].res.kind = "Panic"
                           THEN "panicked" ELSE "reading"]
    /\ UNCHANGED <<devMode, connLog>>

\* Mutant: the bytes of a read are appended to those of the read before it
\* when the two make up a chunk of their own, and decoded together.
ReadChunkFrom_reassemble(c, chunks) ==
    /\ IngestOnly
    /\ connPc[c] = "reading"
    /\ \E chunk \in chunks,
          written \in (IF connLog[c] = "open" THEN BOOLEAN ELSE {FALSE}) :
          LET joined == connChunk[c] \o chunk
              decoded == IF connChunk[c] # << >> /\ joined \in AllChunks
                         THEN DecodedChunks[joined] ELSE DecodedChunks[chunk]
          IN
          /\ connLine' = [connLine EXCEPT ![c] =
                             IF connLog[c] = "open" /\ written
                             THEN LoggedLines[chunk] ELSE << >>]
          /\ connChunk' = [connChunk EXCEPT ![c] = chunk]
          /\ connOut' = [connOut EXCEPT ![c] = decoded]
          /\ connPc' = [connPc EXCEPT ![c] =
                           IF decoded.res.kind = "Panic"
                           THEN "panicked" ELSE "reading"]
    /\ UNCHANGED <<devMode, connLog>>

\* handle_client, lines 504-539: n > 0 bytes were read.  The line is appended
\* to the session file when there is one and write_all succeeds (a failed
\* write or flush is only logged); the chunk is decoded.  A panic in
\* parse_raw_data ends the thread.  connLine is what this read appended.
ReadChunkFrom(c, chunks) ==
    /\ IngestOnly
    /\ connPc[c] = "reading"
    /\ \E chunk \in chunks,
          written \in (IF connLog[c] = "open" THEN BOOLEAN ELSE {FALSE}) :
          /\ connLine' = [connLine EXCEPT ![c] =
                             IF connLog[c] = "open" /\ written
                             THEN LoggedLines[chunk] ELSE << >>]
          /\ connChunk' = [connChunk EXCEPT ![c] = chunk]
          /\ connOut' = [connOut EXCEPT ![c] = DecodedChunks[chunk]]
          /\ connPc' = [connPc EXCEPT ![c] =
                           IF DecodedChunks[chunk].res.kind = "Panic"
                           THEN "panicked" ELSE "reading"]
    /\ UNCHANGED <<devMode, connLog>>

ReadChunk(c) == ReadChunkFrom(c, IngestChunks)

\* The thread leaves handle_client: its buffer, its session file and the
\* result of its last match are dropped.
ConnReturn(c, pc) ==
    /\ connPc' = [connPc EXCEPT ![c] = pc]
    /\ connLog' = [connLog EXCEPT ![c] = "none"]
    /\ connLine' = [connLine EXCEPT ![c] = << >>]
    /\ connChunk' = [connChunk EXCEPT ![c] = << >>]
    /\ connOut' = [connOut EXCEPT ![c] = NoDecode]
    /\ UNCHANGED devMode

\* handle_client, lines 499-503: Ok(0), the peer closed.
ReadZero(c) ==
    /\ IngestOnly
    /\ connPc[c] = "reading"
    /\ ConnReturn(c, "closed")

\* handle_client, lines 540-543: the read failed (the 300 s timeout included).
ReadError(c) ==
    /\ IngestOnly
    /\ connPc[c] = "reading"
    /\ ConnReturn(c, "read_error")

(***************************************************************************)
(* The message harness: frames that carry a payload of one of the four     *)
(* message types, with every status byte and a choice of digit characters. *)
(***************************************************************************)
\* Every value of a status byte.
StatusBytes == 0..255
\* The characters '0', '1', '2' of the home digits, '0', '5', '9' of the guest
\* digits, '0', '9' of the clock digits and '1', '4', '9' of the shot-clock
\* digits.
HomeDigits == {48, 49, 50}
GuestDigits == {48, 53, 57}
ClockDigits == {48, 57}
ShotDigits == {49, 52, 57}
\* Bytes after the fields the decoder reads.
Padding(n) == [i \in 1..n |-> 32]
Extras == {Padding(n) : n \in 0..MaxExtra}

\* "18", status, sport, mm, ss, time-outs, two unused bytes, period, one unused.
TimePayloads ==
    {<<49, 56, status, sport, m1, 53, 49, s2, 50, 49, 32, 32, 52, 32>> \o extra :
        status \in StatusBytes, sport \in {0, 53}, m1 \in ClockDigits,
        s2 \in ClockDigits, extra \in Extras}
\* "30", sport, three home digits, three guest digits.
ScorePayloads ==
    {<<51, 48, 53, h1, h2, h3, g1, g2, g3>> \o extra :
        h1 \in HomeDigits, h2 \in HomeDigits, h3 \in HomeDigits,
        g1 \in GuestDigits, g2 \in GuestDigits, g3 \in GuestDigits,
        extra \in Extras}
\* "50", status, two digits.
ShotPayloads ==
    {<<53, 48, status, s1, s2>> \o extra :
        status \in StatusBytes, s1 \in ShotDigits, s2 \in ShotDigits,
        extra \in Extras}
MsgPayloads ==
    TimePayloads \cup ScorePayloads \cup ShotPayloads
        \cup {FoulsPayload \o extra : extra \in Extras}

\* A sender frames a typed payload.
BuildMessage ==
    /\ CodecOnly
    /\ cStep = "idle"
    /\ \E payload \in MsgPayloads :
          /\ cIn' = [kind |-> "message", address |-> 127, ctrl |-> 71,
                     payload |-> payload]
          /\ cData' = WireChunk(127, 71, payload)
    /\ cStep' = "built"
    /\ UNCHANGED <<cMut, cRes, cLrc>>

MsgNext == BuildMessage \/ Decode


(***************************************************************************)
(* The shared game state and its mutex.                                    *)
(***************************************************************************)
\* The Option<BasketballProtocol>: `some` tells Some from None; the fields are
\* those handle_api_request reads.
None ==
    [some |-> FALSE, home_score |-> 0, away_score |-> 0, period |-> 0,
     home_fouls |-> 0, away_fouls |-> 0, home_timeouts |-> 0,
     away_timeouts |-> 0, possession |-> "", game_state |-> ""]
Some(home, away) ==
    [None EXCEPT !.some = TRUE, !.home_score = home, !.away_score = away]

\* The accessors of BasketballProtocol, as uninterpreted terms over the state.
period_name(protocol) == <<"period_name", protocol.period>>
format_time(protocol) == <<"format_time", protocol.period>>
is_overtime(protocol) == <<"is_overtime", protocol.period>>
is_finished(protocol) == <<"is_finished", protocol.game_state>>
NoHolder == <<"none", 0>>
QueryTask(q) == <<"query", q>>
ApplierTask(a) == <<"applier", a>>

Appliers == 1..NumAppliers
\* The Score update of writer a: the updates are pairwise distinct in both fields.
ScoreOf(a) == [home |-> a, guest |-> 100 + a]

StoreOnly == UNCHANGED <<codecVars, ingestVars, queryVars, listenVars>>

\* A writer takes the mutex.
ApplierLock(a) ==
    /\ StoreOnly
    /\ aPc[a] = "idle"
    /\ lock = NoHolder
    /\ lock' = ApplierTask(a)
    /\ aPc' = [aPc EXCEPT ![a] = "locked"]
    /\ UNCHANGED gameState

\* Under the mutex: the home score is stored (an unset state is created first).
ApplierWriteHome(a) ==
    /\ StoreOnly
    /\ aPc[a] = "locked"
    /\ gameState' = Some(ScoreOf(a).home, gameState.away_score)
    /\ aPc' = [aPc EXCEPT ![a] = "wrote_home"]
    /\ UNCHANGED lock

\* Under the mutex: the away score is stored, and the mutex is released.
ApplierWriteAway(a) ==
    /\ StoreOnly
    /\ aPc[a] = "wrote_home"
    /\ gameState' = Some(gameState.home_score, ScoreOf(a).guest)
    /\ lock' = NoHolder
    /\ aPc' = [aPc EXCEPT ![a] = "done"]

(***************************************************************************)
(* The query server: WebServer::start and handle_http_request.             *)
(***************************************************************************)
Queries == 1..NumQueries

\* First request lines, as character codes.
ReqApiState == <<71, 69, 84, 32, 47, 97, 112, 105, 47, 115, 116, 97, 116, 101>>
ReqApiStateHttp == ReqApiState \o <<32, 72, 84, 84, 80, 47, 49, 46, 49>>
ReqRoot == <<71, 69, 84, 32, 47, 32, 72, 84, 84, 80, 47, 49, 46, 49>>
ReqPostApiState == <<80, 79, 83, 84>> \o SubSeq(ReqApiState, 4, 14)
\* "GET /api/statement HTTP/1.1"
ReqApiStatement ==
    ReqApiState \o <<109, 101, 110, 116, 32, 72, 84, 84, 80, 47, 49, 46, 49>>
ApiRequests == {ReqApiStateHttp}
AllRequests ==
    {ReqApiStateHttp, ReqApiState, ReqRoot, ReqPostApiState, ReqApiStatement,
     << >>}

\* str::starts_with
starts_with(line, prefix) ==
    Len(line) >= Len(prefix) /\ SubSeq(line, 1, Len(prefix)) = prefix

NoBody == [kind |-> "none"]
ErrorJson == [kind |-> "error", error |-> "No game data available"]
\* format!("{:?}", value)
Debug(value) == <<"{:?}", value>>

\* Mutant: the state object is written without its two flags.
StateJson_no_flags(protocol) ==
    [kind |-> "state", home_score |-> protocol.home_score,
     away_score |-> protocol.away_score, period |-> protocol.period,
     period_name |-> period_name(protocol), time |-> format_time(protocol),
     home_fouls |-> protocol.home_fouls, away_fouls |-> protocol.away_fouls,
     home_timeouts |-> protocol.home_timeouts,
     away_timeouts |-> protocol.away_timeouts,
     possession |-> Debug(protocol.possession),
     game_state |-> Debug(protocol.game_state)]

StateJson(protocol) ==
    [kind |-> "state", home_score |-> protocol.home_score,
     away_score |-> protocol.away_score, period |-> protocol.period,
     period_name |-> period_name(protocol), time |-> format_time(protocol),
     home_fouls |-> protocol.home_fouls, away_fouls |-> protocol.away_fouls,
     home_timeouts |-> protocol.home_timeouts,
     away_timeouts |-> protocol.away_timeouts,
     possession |-> Debug(protocol.possession),
     game_state |-> Debug(protocol.game_state),
     is_overtime |-> is_overtime(protocol),
     is_finished |-> is_finished(protocol)]

\* handle_api_request, lines 96-100: the status line and the content type
\* around the JSON body.
JsonResponse(json) ==
    [status |-> 200, content_type |-> "application/json"] @@ json
Html(from) == [kind |-> "html", from |-> from]

QueryOnly == UNCHANGED <<codecVars, ingestVars, aPc, listenVars>>

\* WebServer::start, line 28: listener.incoming() yields an Err.
WebAcceptError ==
    /\ UNCHANGED <<codecVars, ingestVars, storeVars, queryVars, mainListener>>
    /\ webListener = "accepting"
    /\ webListener' = "failed"

\* WebServer::start, lines 38-40: the accept error is printed and the for
\* loop goes on.
WebAcceptLogged ==
    /\ UNCHANGED <<codecVars, ingestVars, storeVars, queryVars, mainListener>>
    /\ webListener = "failed"
    /\ webListener' = "accepting"

\* WebServer::start, lines 28-37: an accepted stream gets its own thread.
QueryAccept(q) ==
    /\ QueryOnly
    /\ webListener = "accepting"
    /\ qPc[q] = "unborn"
    /\ qPc' = [qPc EXCEPT ![q] = "read"]
    /\ UNCHANGED <<qReq, qBody, gameState, lock>>

\* handle_http_request, lines 52-64: the request is read and routed on its
\* first line.
ReadRequest(q, requests) ==
    /\ QueryOnly
    /\ qPc[q] = "read"
    /\ \E request_line \in requests :
          /\ qReq' = [qReq EXCEPT ![q] = request_line]
          /\ qPc' = [qPc EXCEPT ![q] =
                        IF starts_with(request_line, ReqApiState)
                        THEN "api" ELSE "overlay"]
    /\ UNCHANGED <<qBody, gameState, lock>>

\* handle_http_request, line 53: stream.read(..)? fails.
ReadRequestError(q) ==
    /\ QueryOnly
    /\ qPc[q] = "read"
    /\ qPc' = [qPc EXCEPT ![q] = "read_error"]
    /\ UNCHANGED <<qReq, qBody, gameState, lock>>

\* Mutant: the state is read without waiting for the mutex.
MutexAvailable_unguarded(q) == TRUE

\* Mutex::lock blocks until no task holds the mutex.
MutexAvailable(q) == lock = NoHolder

\* handle_api_request, line 73: state.lock().unwrap(); the guard lives in
\* current_state until the function returns.
ApiLock(q) ==
    /\ QueryOnly
    /\ qPc[q] = "api"
    /\ MutexAvailable(q)
    /\ lock' = QueryTask(q)
    /\ qPc' = [qPc EXCEPT ![q] = "locked"]
    /\ UNCHANGED <<qReq, qBody, gameState>>

\* handle_api_request, lines 75-100: the JSON body and the response are
\* formatted from the state behind the guard.
ApiFormat(q) ==
    /\ QueryOnly
    /\ qPc[q] = "locked"
    /\ qBody' = [qBody EXCEPT ![q] =
                    JsonResponse(IF gameState.some THEN StateJson(gameState)
                                 ELSE ErrorJson)]
    /\ qPc' = [qPc EXCEPT ![q] = "api_write"]
    /\ UNCHANGED <<qReq, gameState, lock>>

\* Mutant: the guard outlives the function (the mutex stays locked).
ReleaseOnReturn_leak(q) == lock

\* The guard is dropped when handle_api_request returns.
ReleaseOnReturn(q) == IF lock = QueryTask(q) THEN NoHolder ELSE lock

\* handle_api_request, line 102: write_all succeeds.
ApiWrite(q) ==
    /\ QueryOnly
    /\ qPc[q] = "api_write"
    /\ qPc' = [qPc EXCEPT ![q] = "api_flush"]
    /\ UNCHANGED <<qReq, qBody, gameState, lock>>

\* handle_api_request, line 102: write_all fails and `?` returns.
ApiWriteError(q) ==
    /\ QueryOnly
    /\ qPc[q] = "api_write"
    /\ qPc' = [qPc EXCEPT ![q] = "write_error"]
    /\ qBody' = [qBody EXCEPT ![q] = NoBody]
    /\ lock' = ReleaseOnReturn(q)
    /\ UNCHANGED <<qReq, gameState>>

\* handle_api_request, lines 103-104: flush succeeds, Ok(()) is returned.
ApiFlush(q) ==
    /\ QueryOnly
    /\ qPc[q] = "api_flush"
    /\ qPc' = [qPc EXCEPT ![q] = "done"]
    /\ lock' = ReleaseOnReturn(q)
    /\ UNCHANGED <<qReq, qBody, gameState>>

\* handle_api_request, line 103: flush fails and `?` returns.
ApiFlushError(q) ==
    /\ QueryOnly
    /\ qPc[q] = "api_flush"
    /\ qPc' = [qPc EXCEPT ![q] = "flush_error"]
    /\ lock' = ReleaseOnReturn(q)
    /\ UNCHANGED <<qReq, qBody, gameState>>

\* handle_overlay_request, lines 110-125: overlay.html, else
\* static/overlay.html, else the embedded page.
OverlayLoad(q) ==
    /\ QueryOnly
    /\ qPc[q] = "overlay"
    /\ \E from \in {"overlay.html", "static/overlay.html", "embedded"} :
          qBody' = [qBody EXCEPT ![q] = Html(from)]
    /\ qPc' = [qPc EXCEPT ![q] = "overlay_write"]
    /\ UNCHANGED <<qReq, gameState, lock>>

\* handle_overlay_request, lines 127-129: write_all and flush succeed.
OverlaySend(q) ==
    /\ QueryOnly
    /\ qPc[q] = "overlay_write"
    /\ qPc' = [qPc EXCEPT ![q] = "done"]
    /\ UNCHANGED <<qReq, qBody, gameState, lock>>

\* handle_overlay_request, lines 127-128: write_all or flush fails.
OverlaySendError(q) ==
    /\ QueryOnly
    /\ qPc[q] = "overlay_write"
    /\ qPc' = [qPc EXCEPT ![q] = "write_error"]
    /\ qBody' = [qBody EXCEPT ![q] = NoBody]
    /\ UNCHANGED <<qReq, gameState, lock>>

(***************************************************************************)
(* Initial state and specifications.                                       *)
(***************************************************************************)
ServerIdle ==
    /\ connPc = [c \in Conns |-> "unborn"]
    /\ connLog = [c \in Conns |-> "none"]
    /\ connLine = [c \in Conns |-> << >>]
    /\ connChunk = [c \in Conns |-> << >>]
    /\ connOut = [c \in Conns |-> NoDecode]
    /\ gameState = None
    /\ lock = NoHolder
    /\ qPc = [q \in Queries |-> "unborn"]
    /\ qReq = [q \in Queries |-> << >>]
    /\ qBody = [q \in Queries |-> NoBody]
    /\ aPc = [a \in Appliers |-> "idle"]
    /\ mainListener = "accepting"
    /\ webListener = "accepting"

\* The process starts with or without the argument "dev".
Init == CodecInit /\ ServerIdle /\ devMode \in BOOLEAN

\* The ingest server is not started.
InitNoIngest == CodecInit /\ ServerIdle /\ devMode = FALSE

\* The process is started with the argument "dev".
InitDev == CodecInit /\ ServerIdle /\ devMode = TRUE

\* The ingest connections beside one query connection asking for the state
\* and one state writer.
IngestNext ==
    \/ \E c \in Conns :
          \/ IngestAccept(c)
          \/ ConnSetupFail(c)
          \/ ConnSetup(c)
          \/ ReadChunk(c)
          \/ ReadZero(c)
          \/ ReadError(c)
    \/ QueryAccept(1)
    \/ ReadRequest(1, ApiRequests)
    \/ ReadRequestError(1)
    \/ ApiLock(1)
    \/ ApiFormat(1)
    \/ ApiWrite(1)
    \/ ApiWriteError(1)
    \/ ApiFlush(1)
    \/ ApiFlushError(1)
    \/ ApplierLock(1)
    \/ ApplierWriteHome(1)
    \/ ApplierWriteAway(1)

\* The state writers against the query connections asking for the state.
StoreNext ==
    \/ \E a \in Appliers :
          \/ ApplierLock(a)
          \/ ApplierWriteHome(a)
          \/ ApplierWriteAway(a)
    \/ \E q \in Queries :
          \/ QueryAccept(q)
          \/ ReadRequest(q, ApiRequests)
          \/ ReadRequestError(q)
          \/ ApiLock(q)
          \/ ApiFormat(q)
          \/ ApiWrite(q)
          \/ ApiWriteError(q)
          \/ ApiFlush(q)
          \/ ApiFlushError(q)

\* The query connections on both routes, beside one state writer.
QueryNext ==
    \/ \E q \in Queries :
          \/ QueryAccept(q)
          \/ ReadRequest(q, AllRequests)
          \/ ReadRequestError(q)
          \/ ApiLock(q)
          \/ ApiFormat(q)
          \/ ApiWrite(q)
          \/ ApiWriteError(q)
          \/ ApiFlush(q)
          \/ ApiFlushError(q)
          \/ OverlayLoad(q)
          \/ OverlaySend(q)
          \/ OverlaySendError(q)
    \/ ApplierLock(1)
    \/ ApplierWriteHome(1)
    \/ ApplierWriteAway(1)

\* Both accept loops with their failures, the ingest connections and the
\* query connections asking for the state.
ListenNext ==
    \/ MainAcceptError
    \/ MainAcceptLogged
    \/ WebAcceptError
    \/ WebAcceptLogged
    \/ \E c \in Conns :
          \/ IngestAccept(c)
          \/ ConnSetupFail(c)
          \/ ConnSetup(c)
          \/ ReadChunkFrom(c, ListenChunks)
          \/ ReadZero(c)
          \/ ReadError(c)
    \/ \E q \in Queries :
          \/ QueryAccept(q)
          \/ ReadRequest(q, ApiRequests)
          \/ ReadRequestError(q)
          \/ ApiLock(q)
          \/ ApiFormat(q)
          \/ ApiWrite(q)
          \/ ApiWriteError(q)
          \/ ApiFlush(q)
          \/ ApiFlushError(q)

\* The ingest connections reading the cut frames, beside one state writer.
TruncatedNext ==
    \/ \E c \in Conns :
          \/ IngestAccept(c)
          \/ ConnSetupFail(c)
          \/ ConnSetup(c)
          \/ ReadChunkFrom(c, TruncatedChunks)
          \/ ReadZero(c)
          \/ ReadError(c)
    \/ ApplierLock(1)
    \/ ApplierWriteHome(1)
    \/ ApplierWriteAway(1)

\* The ingest connections reading frames that arrive whole or cut in two.
SplitNextStep ==
    \E c \in Conns :
        \/ IngestAccept(c)
        \/ ConnSetupFail(c)
        \/ ConnSetup(c)
        \/ ReadChunkFrom(c, SplitNext(connChunk[c]))
        \/ ReadZero(c)
        \/ ReadError(c)

SpecIngest == Init /\ [][IngestNext]_vars
SpecSplit == InitDev /\ [][SplitNextStep]_vars
SpecTruncated == InitDev /\ [][TruncatedNext]_vars
SpecListen == InitDev /\ [][ListenNext]_vars
SpecStore == InitNoIngest /\ [][StoreNext]_vars

\* Every spawned thread is scheduled: a step that needs nothing but the
\* processor is taken, and Mutex::lock returns once the mutex stays free.
ThreadsScheduled ==
    /\ \A q \in Queries : WF_vars(ApiLock(q)) /\ WF_vars(ApiFormat(q))
    /\ \A a \in Appliers :
          WF_vars(ApplierWriteHome(a)) /\ WF_vars(ApplierWriteAway(a))
SpecStoreFair == InitNoIngest /\ [][StoreNext]_vars /\ ThreadsScheduled
SpecQuery == InitNoIngest /\ [][QueryNext]_vars
SpecCodec == InitNoIngest /\ [][CodecNext]_vars
SpecMsg == InitNoIngest /\ [][MsgNext]_vars

(***************************************************************************)
(* Properties of the frame codec (SpecCodec).                              *)
(***************************************************************************)
\* Parity of bit k over the bytes of a sequence.
ParityBit(bytes, k) ==
    Cardinality({i \in 1..Len(bytes) : (bytes[i] \div (2 ^ k)) % 2 = 1}) % 2

\* The XOR of all bytes masked with 0x7F, bit by bit.
Xor7(bytes) ==
    ParityBit(bytes, 0) + 2 * ParityBit(bytes, 1) + 4 * ParityBit(bytes, 2)
        + 8 * ParityBit(bytes, 3) + 16 * ParityBit(bytes, 4)
        + 32 * ParityBit(bytes, 5) + 64 * ParityBit(bytes, 6)

\* The bytes the checksum of the built frame covers.
CoveredIn == <<cIn.address, 2, cIn.ctrl>> \o cIn.payload \o <<3>>

\* A built chunk, unchanged, has been decoded.
DecodedBuilt == cStep = "parsed" /\ cIn.kind = "frame" /\ cMut = NoMut
\* A built chunk with the byte at one of the given positions changed has been decoded.
DecodedFlipped(positions) ==
    cStep = "parsed" /\ cIn.kind = "frame" /\ cMut.pos \in positions
\* Positions of the address, the control byte and the payload in cData.
FieldPositions == {1, 3} \cup 4..(Len(cData) - 3)

\* C1: a chunk SOH, address, STX, control, payload..., ETX, c with c the
\* checksum of address, STX, control, payload..., ETX is accepted, and the frame
\* returned has that address, control and payload and a stored checksum equal
\* to the recomputed one.
C1_RoundTrip ==
    DecodedBuilt =>
        /\ cData = <<1, cIn.address, 2, cIn.ctrl>> \o cIn.payload
                      \o <<3, compute_lrc_bytes(CoveredIn)>>
        /\ cRes.res.kind = "Ok"
        /\ cRes.res.frame.address = cIn.address
        /\ cRes.res.frame.ctrl = cIn.ctrl
        /\ cRes.res.frame.message = cIn.payload
        /\ cRes.res.frame.lrc = compute_lrc_bytes(CoveredIn)
        /\ cRes.res.frame.lrc = expected_lrc(cRes.res.frame)

C1_Witness ==
    DecodedBuilt /\ Len(cIn.payload) >= 2 /\ cRes.res.kind = "Ok"
        /\ cRes.res.frame.message = cIn.payload

\* C2: for every byte sequence, the empty one included, compute_lrc_bytes is
\* the XOR of all bytes masked with 0x7F, plus 32 when that is below 32, and
\* lies in 32..127.
C2_LrcValueAndRange ==
    cStep = "summed" =>
        /\ cLrc = (IF Xor7(cData) < 32 THEN Xor7(cData) + 32 ELSE Xor7(cData))
        /\ cLrc \in 32..127

C2_Witness ==
    /\ cStep = "summed"
    /\ Len(cData) >= 2
    /\ \E i \in 1..Len(cData) : cData[i] >= 128
    /\ Xor7(cData) < 32
    /\ cLrc = Xor7(cData) + 32

\* C3 as stated: changing any single byte of the address, the control byte or
\* the payload of an accepted frame, the checksum left alone, is always
\* rejected with the checksum-mismatch error.
C3_AnyFlipRejected ==
    DecodedFlipped(FieldPositions) => cRes.res = Err("LRC validation failed")

\* The change leaves the checksum as it was: the two values differ in bit 7
\* only, or in bit 5 (and possibly bit 7) while bit 6 of the XOR of the covered
\* bytes is clear (both XOR values are then folded onto the same checksum).
FlipKeepsLrc ==
    LET old == cMut.old % 128
        new == cMut.new % 128
        lo == IF old < new THEN old ELSE new
        hi == IF old < new THEN new ELSE old
    IN  \/ old = new
        \/ /\ hi = lo + 32
           /\ (lo \div 32) % 2 = 0
           /\ Xor7(CoveredIn) < 64

\* C3, amended: such a change is rejected with the checksum-mismatch error
\* unless it leaves the recomputed checksum unchanged, and then the changed
\* chunk is accepted.
C3_FlipRejectedUnlessSameLrc ==
    DecodedFlipped(FieldPositions) =>
        IF FlipKeepsLrc
        THEN cRes.res.kind = "Ok"
        ELSE cRes.res = Err("LRC validation failed")

C3_Witness ==
    /\ DecodedFlipped(4..(Len(cData) - 3))
    /\ ~FlipKeepsLrc
    /\ cRes.res = Err("LRC validation failed")

\* C4: changing the first byte of an accepted frame to a value other than SOH
\* yields the bad-start error, the third byte to a value other than STX the
\* bad-frame-start error, the second-to-last byte to a value other than ETX the
\* bad-frame-end error; never the checksum-mismatch error.
C4_SentinelErrors ==
    /\ DecodedFlipped({0}) => cRes.res = Err("Invalid SOH")
    /\ DecodedFlipped({2}) => cRes.res = Err("Invalid STX")
    /\ DecodedFlipped({Len(cData) - 2}) => cRes.res = Err("Invalid ETX")

C4_Witness ==
    /\ DecodedFlipped({2})
    /\ cMut.old = 2 /\ cMut.new # 2
    /\ cRes.res = Err("Invalid STX")

\* C5: every chunk of 1 to 4 bytes is rejected with the too-short error, and
\* decoding it does not abort (no byte is indexed before the length check).
C5_ShortChunkTooShort ==
    (cStep = "parsed" /\ Len(cData) < 5) =>
        /\ cRes.res = Err("Data too short to be a valid frame")
        /\ cRes.res.kind # "Panic"
        /\ ~cRes.dispatched

C5_Witness ==
    /\ cStep = "parsed" /\ cIn.kind = "raw" /\ Len(cData) = 4
    /\ cData[1] = 1 /\ cData[3] = 2
    /\ cRes.res = Err("Data too short to be a valid frame")

\* C6: every frame parse_raw_data returns as a success, and so every frame
\* handed to parse_valid_frame, has soh = 0x01, stx = 0x02, etx = 0x03 and
\* lrc = compute_lrc_bytes(address, stx, ctrl, message..., etx), SOH excluded.
C6_FrameInvariant ==
    (cRes.res.kind = "Ok" \/ cRes.dispatched) =>
        LET frame == cRes.frame IN
        /\ cRes.res.kind = "Ok" /\ cRes.dispatched /\ frame = cRes.res.frame
        /\ frame.soh = 1 /\ frame.stx = 2 /\ frame.etx = 3
        /\ frame.lrc = compute_lrc_bytes(<<frame.address, frame.stx, frame.ctrl>>
                                            \o frame.message \o <<frame.etx>>)

\* A changed chunk that is still accepted: its frame satisfies the invariant too.
C6_Witness ==
    /\ cStep = "parsed" /\ cMut.pos >= 4 /\ cRes.dispatched
    /\ cRes.frame.message # cIn.payload

\* The first of the length and sentinel checks that the decoded chunk fails,
\* in the order length, SOH, STX, ETX; "" when it passes the four.
FirstDefect ==
    LET n == Len(cData) IN
    IF n < 5 THEN "Data too short to be a valid frame"
    ELSE IF cData[1] # 1 THEN "Invalid SOH"
    ELSE IF cData[3] # 2 THEN "Invalid STX"
    ELSE IF cData[n - 1] # 3 THEN "Invalid ETX"
    ELSE ""

\* The last byte of the decoded chunk is the checksum of the bytes between
\* SOH and it.
ChecksumMatches ==
    LET n == Len(cData)
        x == Xor7(SubSeq(cData, 2, n - 1))
    IN  cData[n] = (IF x < 32 THEN x + 32 ELSE x)

\* C19: parse_raw_data checks length, SOH, STX, ETX and checksum in that order
\* and stops at the first failure: a chunk with several defects is reported
\* with the error of the earliest failing check, and the checksum decides (a
\* mismatch or an accepted frame) only for a chunk that passes the four checks
\* before it.
C19_EarliestCheckReported ==
    cStep = "parsed" =>
        /\ FirstDefect # "" => cRes.res = Err(FirstDefect)
        /\ (cRes.res.kind = "Ok" \/ cRes.res = Err("LRC validation failed"))
              => FirstDefect = ""
        /\ (FirstDefect = "" /\ Len(cData) >= 6) =>
              IF ChecksumMatches THEN cRes.res.kind = "Ok"
              ELSE cRes.res = Err("LRC validation failed")

\* Five bytes with none of the three sentinels in place and a last byte that
\* is not their checksum: the bad start is what is reported.
C19_Witness ==
    /\ cStep = "parsed" /\ cIn.kind = "raw" /\ Len(cData) = 5
    /\ cData[1] # 1 /\ cData[3] # 2 /\ cData[4] # 3
    /\ ~ChecksumMatches
    /\ cRes.res = Err("Invalid SOH")

(***************************************************************************)
(* Properties of the message decoder (SpecMsg).                            *)
(***************************************************************************)
\* A framed payload with the given tag and at least n bytes has been decoded.
DecodedTyped(t1, t2, n) ==
    /\ cStep = "parsed" /\ cIn.kind = "message"
    /\ Len(cIn.payload) >= n
    /\ cIn.payload[1] = t1 /\ cIn.payload[2] = t2

\* Bit k of the status byte at payload offset 2.
StatusBit(k) == (cIn.payload[3] \div (2 ^ k)) % 2 = 1

\* C15: for a valid frame whose payload has the tag "18" and at least 14
\* bytes, the decoded clock-off flag (and the clock line that is logged) is
\* bit 1 of the status byte, whatever the other status bits and bytes are.
C15_ClockOffIsBit1 ==
    DecodedTyped(49, 56, 14) =>
        /\ cRes.res.kind = "Ok"
        /\ cRes.out.kind = "Message18"
        /\ cRes.out.status.game_clock_off = StatusBit(1)
        /\ cRes.out.display[5] = (IF StatusBit(1) THEN <<79, 70, 70>> ELSE <<79, 78>>)

\* Bit 1 is set while bit 0 is clear, and the payload is longer than 14 bytes.
C15_Witness ==
    /\ DecodedTyped(49, 56, 15)
    /\ StatusBit(1) /\ ~StatusBit(0) /\ StatusBit(7)
    /\ cRes.out.status.game_clock_off

\* The decimal value of a digit character.
DigitOf(b) == b - 48

\* The numbers the decoder yields for a message: the values of the fields of
\* its struct (what it logs besides are strings of characters).
YieldedNumbers(out) == {out.message[f] : f \in DOMAIN out.message}

\* C16: decoding a score payload (tag "30", at least 9 bytes, six digits at
\* offsets 3..8) yields the numbers home = 100*d3 + 10*d4 + d5 and
\* guest = 100*d6 + 10*d7 + d8; the digits 1,2,0 and 0,9,5 give 120 and 95.
C16_NumericScores ==
    DecodedTyped(51, 48, 9) =>
        LET p == cIn.payload
            home == 100 * DigitOf(p[4]) + 10 * DigitOf(p[5]) + DigitOf(p[6])
            guest == 100 * DigitOf(p[7]) + 10 * DigitOf(p[8]) + DigitOf(p[9])
        IN  /\ cRes.out.kind = "Message30"
            /\ home \in YieldedNumbers(cRes.out)
            /\ guest \in YieldedNumbers(cRes.out)

\* C17: for a valid frame with a shot-clock payload (tag "50", at least 5
\* bytes) with the digit characters a and b at offsets 3 and 4, the rendered
\* shot clock is "a.b" when bit 4 of the status byte is set and "ab" when it is
\* clear.
C17_ShotClockString ==
    DecodedTyped(53, 48, 5) =>
        LET a == cIn.payload[4]
            b == cIn.payload[5]
        IN  /\ cRes.res.kind = "Ok"
            /\ cRes.out.kind = "Message50"
            /\ cRes.out.display =
                  <<IF StatusBit(4) THEN <<a, 46, b>> ELSE <<a, b>> >>

\* '1','4' with the tenths bit set and bit 3 clear is rendered "1.4".
C17_Witness ==
    /\ DecodedTyped(53, 48, 5)
    /\ cIn.payload[4] = 49 /\ cIn.payload[5] = 52
    /\ StatusBit(4) /\ ~StatusBit(3)
    /\ cRes.out.display = << <<49, 46, 52>> >>

(***************************************************************************)
(* Properties of the shared state and the query server (SpecStore).        *)
(***************************************************************************)
\* C7: with the writers applying distinct Score updates and the query
\* connections serving /api/state concurrently, every state body holds the
\* fields of one complete prior update, never the home score of one update
\* with the away score of another.
C7_NoTornRead ==
    \A q \in Queries :
        qBody[q].kind = "state" =>
            \E a \in Appliers :
                /\ aPc[a] = "done"
                /\ qBody[q].home_score = ScoreOf(a).home
                /\ qBody[q].away_score = ScoreOf(a).guest

\* A body was served from a complete update while another writer is halfway
\* through its own and a second query connection waits for the mutex.
C7_Witness ==
    \E q1, q2 \in Queries, a \in Appliers :
        /\ qPc[q1] = "done" /\ qBody[q1].kind = "state"
        /\ qPc[q2] = "api"
        /\ aPc[a] = "wrote_home"
        /\ gameState.away_score # ScoreOf(a).guest

\* C8: no task holds the game-state mutex while it writes or flushes the HTTP
\* response.
C8_NoLockAcrossIO ==
    \A q \in Queries :
        qPc[q] \in {"api_write", "api_flush"} => lock # QueryTask(q)

\* The fields of the state object.
StateFields ==
    {"home_score", "away_score", "period", "period_name", "time",
     "home_fouls", "away_fouls", "home_timeouts", "away_timeouts",
     "possession", "game_state", "is_overtime", "is_finished"}

\* The response is HTTP 200 application/json with exactly the error object.
IsErrorAnswer(body) ==
    /\ DOMAIN body = {"status", "content_type", "kind", "error"}
    /\ body.status = 200 /\ body.content_type = "application/json"
    /\ body.kind = "error" /\ body.error = "No game data available"

\* The response is HTTP 200 application/json with exactly the thirteen fields.
IsStateAnswer(body) ==
    /\ DOMAIN body = {"status", "content_type", "kind"} \cup StateFields
    /\ body.status = 200 /\ body.content_type = "application/json"
    /\ body.kind = "state"

\* The state, once set, stays set; a request for the state whose response is
\* completed in this step got the error object when the state was never set
\* and the thirteen-field object when it is set.
AnswerFollowsState ==
    /\ gameState.some => gameState'.some
    /\ \A q \in Queries :
          (qPc[q] = "api_flush" /\ qPc'[q] = "done") =>
              IF gameState.some
              THEN IsStateAnswer(qBody'[q])
                      /\ qBody'[q].home_score = gameState.home_score
                      /\ qBody'[q].away_score = gameState.away_score
              ELSE IsErrorAnswer(qBody'[q])

\* C13: a /api/state request answered while the shared state has never been
\* set gets HTTP 200 with {"error":"No game data available"}; one answered once
\* the state is set gets HTTP 200 with the thirteen-field object, and never the
\* error object again.
C13_ApiAnswer == [][AnswerFollowsState]_vars

\* One request was answered with the error object before the state was set
\* and another with the state object afterwards.
C13_Witness ==
    \E q1, q2 \in Queries :
        /\ qPc[q1] = "done" /\ IsErrorAnswer(qBody[q1])
        /\ qPc[q2] = "done" /\ IsStateAnswer(qBody[q2])
        /\ qBody[q2].home_score = gameState.home_score

(***************************************************************************)
(* Properties of the routing (SpecQuery).                                  *)
(***************************************************************************)
\* Position of the first space of a line, or one past its end.
FirstSpace(line) ==
    IF \E i \in 1..Len(line) : line[i] = 32
    THEN CHOOSE i \in 1..Len(line) :
            line[i] = 32 /\ \A j \in 1..(i - 1) : line[j] # 32
    ELSE Len(line) + 1

\* The method and the path of a request line "METHOD path version".
MethodOf(line) == SubSeq(line, 1, FirstSpace(line) - 1)
PathOf(line) ==
    LET rest == SubSeq(line, FirstSpace(line) + 1, Len(line))
    IN  SubSeq(rest, 1, FirstSpace(rest) - 1)

\* The request is a GET for the path /api/state.
TargetsStateEndpoint(line) ==
    /\ MethodOf(line) = <<71, 69, 84>>
    /\ PathOf(line) = SubSeq(ReqApiState, 5, 14)

\* The route a query connection has taken, "none" before it is routed and
\* "both" if it were on the two routes at once.
RouteOf(q) ==
    LET api == qPc[q] \in {"api", "locked", "api_write", "api_flush"}
                  \/ qBody[q].kind \in {"state", "error"}
        overlay == qPc[q] \in {"overlay", "overlay_write"}
                      \/ qBody[q].kind = "html"
    IN  IF api /\ overlay THEN "both"
        ELSE IF api THEN "api"
        ELSE IF overlay THEN "overlay"
        ELSE "none"

\* C14: the route follows from the first request line alone: a GET for the
\* path /api/state takes the JSON route, a request for any other path takes
\* the overlay route (200, text/html), never both.
C14_RouteByPath ==
    \A q \in Queries :
        RouteOf(q) # "none" =>
            RouteOf(q) = (IF TargetsStateEndpoint(qReq[q])
                          THEN "api" ELSE "overlay")

(***************************************************************************)
(* Properties of the ingest path (SpecIngest).                             *)
(***************************************************************************)
\* C9: once a connection has decoded a valid frame carrying a recognised
\* message, the update has been applied to the shared state, so that a query
\* served afterwards gets the state payload and not the no-data object.
C9_RecognisedMessageApplied ==
    \A c \in Conns :
        connOut[c].out.kind \in {"Message18", "Message30", "Message31", "Message50"}
            => gameState.some

\* The chunk is a well-formed frame with a valid checksum whose payload starts
\* with a two-byte tag other than "18", "30", "31", "50".
ValidUnknownTag(chunk) ==
    LET n == Len(chunk)
        covered == SubSeq(chunk, 2, n - 1)
        x == Xor7(covered)
    IN  /\ n >= 8
        /\ chunk[1] = 1 /\ chunk[3] = 2 /\ chunk[n - 1] = 3
        /\ chunk[n] = (IF x < 32 THEN x + 32 ELSE x)
        /\ <<chunk[5], chunk[6]>> \notin {<<49, 56>>, <<51, 48>>, <<51, 49>>, <<53, 48>>}

\* C10: a valid frame whose payload starts with an unknown two-byte tag is
\* classified as unknown, produces no event, and leaves the shared game state
\* as it was before the chunk was read.  (A step that changes what a
\* connection last read, decoded or logged is a read of that connection.)
C10_UnknownTagNoEffect ==
    [][\A c \in Conns :
          (/\ <<connChunk[c], connOut[c], connLine[c]>>
                  # <<connChunk'[c], connOut'[c], connLine'[c]>>
           /\ connChunk'[c] # << >>
           /\ ValidUnknownTag(connChunk'[c])) =>
              /\ connOut'[c].dispatched
              /\ connOut'[c].out.kind = "Unknown message type"
              /\ connOut'[c].out.message = << >>
              /\ gameState' = gameState
              /\ connPc'[c] = "reading"]_vars

C10_Witness ==
    \E c \in Conns :
        /\ ValidUnknownTag(connChunk[c])
        /\ connOut[c].out.kind = "Unknown message type"
        /\ gameState.some

\* C11: an ingest connection that is reading leaves its read loop only when a
\* read returns zero bytes or fails; decoding a chunk, whatever its outcome,
\* takes the task back to the read.
C11_EndsOnlyOnReadEnd ==
    [][\A c \in Conns :
          (connPc[c] = "reading" /\ connPc'[c] # "reading") =>
              connPc'[c] \in {"closed", "read_error"}]_vars

(***************************************************************************)
(* Properties of the accept loops (SpecListen).                            *)
(***************************************************************************)
\* What the thread of one connection owns.
ConnLocal(c) == <<connPc[c], connLog[c], connLine[c], connChunk[c], connOut[c]>>
QueryLocal(q) == <<qPc[q], qReq[q], qBody[q]>>

\* The connection's thread has ended.
ConnEnded(c) == connPc[c] \in {"setup_error", "closed", "read_error", "panicked"}
QueryEnded(q) == qPc[q] \in {"read_error", "write_error", "flush_error", "done"}

\* Both accept loops are running: each is accepting or logging a failed accept
\* before it accepts again, and a connection not yet accepted can be accepted.
ListenersRunning ==
    /\ mainListener \in {"accepting", "failed"}
    /\ webListener \in {"accepting", "failed"}
    /\ (mainListener = "failed") => ENABLED MainAcceptLogged
    /\ (webListener = "failed") => ENABLED WebAcceptLogged
    /\ \A c \in Conns :
          (mainListener = "accepting" /\ connPc[c] = "unborn")
              => ENABLED IngestAccept(c)
    /\ \A q \in Queries :
          (webListener = "accepting" /\ qPc[q] = "unborn")
              => ENABLED QueryAccept(q)

\* A step of one running thread changes no other thread and no accept loop,
\* and a step of an accept loop changes no running thread.
OneTaskPerStep ==
    /\ \A c \in Conns :
          (ConnLocal(c)' # ConnLocal(c) /\ connPc[c] # "unborn") =>
              /\ listenVars' = listenVars
              /\ \A d \in Conns \ {c} : ConnLocal(d)' = ConnLocal(d)
              /\ \A q \in Queries : QueryLocal(q)' = QueryLocal(q)
    /\ \A q \in Queries :
          (QueryLocal(q)' # QueryLocal(q) /\ qPc[q] # "unborn") =>
              /\ listenVars' = listenVars
              /\ \A r \in Queries \ {q} : QueryLocal(r)' = QueryLocal(r)
              /\ \A c \in Conns : ConnLocal(c)' = ConnLocal(c)
    /\ (listenVars' # listenVars) =>
              /\ \A c \in Conns : ConnLocal(c)' = ConnLocal(c)
              /\ \A q \in Queries : QueryLocal(q)' = QueryLocal(q)

\* C12: whatever happens on the connections (a failed accept, a read error, a
\* peer close, malformed input), both accept loops keep running and hand a new
\* connection to a thread of its own; an error or a panic in one connection's
\* thread changes neither another connection's thread nor an accept loop.
C12_ListenersSurvive == []ListenersRunning /\ [][OneTaskPerStep]_vars

\* An accept has failed on the ingest port after one connection panicked on
\* malformed input and one query connection ended on a write error, while a
\* second query connection holds the mutex and the accept loop of the query
\* server is accepting.
C12_Witness ==
    /\ mainListener = "failed" /\ webListener = "accepting"
    /\ \E c \in Conns : connPc[c] = "panicked"
    /\ \E q, r \in Queries :
          /\ qPc[q] = "write_error"
          /\ qPc[r] = "api_write"

(***************************************************************************)
(* Properties of the session log (SpecIngest).                             *)
(***************************************************************************)
\* The step is a read of n > 0 bytes on connection c.
ReadStep(c) ==
    /\ connPc[c] = "reading"
    /\ connChunk'[c] # << >>
    /\ <<connChunk[c], connOut[c], connLine[c]>>
           # <<connChunk'[c], connOut'[c], connLine'[c]>>

\* What is decoded from a chunk, and whether the thread goes on, follows from
\* the chunk alone; the session file stays as it was set up, and a line, when
\* one is appended, is the chunk in hexadecimal.  Setting up the session file
\* never ends the thread.
LoggingIsPassive(c) ==
    /\ ReadStep(c) =>
          /\ connOut'[c] = DecodedChunks[connChunk'[c]]
          /\ connPc'[c] = (IF DecodedChunks[connChunk'[c]].res.kind = "Panic"
                           THEN "panicked" ELSE "reading")
          /\ connLog'[c] = connLog[c]
          /\ connLine'[c] \in {<< >>, LoggedLines[connChunk'[c]]}
          /\ (connLog[c] = "none") => connLine'[c] = << >>
    /\ (connPc[c] = "start" /\ connPc'[c] # "start") =>
          /\ connPc'[c] \in {"reading", "setup_error"}
          /\ (connPc'[c] = "reading" /\ devMode) => connLog'[c] = "none"

\* C18: the session log never affects decoding or the life of the connection:
\* with logging disabled, enabled, failed at the directory or the file, or
\* failing on a single write or flush, every chunk is decoded to the same
\* outcome and the thread keeps reading; a failed write leaves the file open
\* for the later chunks.
C18_LoggingIsPassive == [][\A c \in Conns : LoggingIsPassive(c)]_vars

\* A write to the open session file has failed, and the chunk, a valid score
\* frame, was decoded all the same; the thread is reading.
C18_Witness ==
    \E c \in Conns :
        /\ ~devMode /\ connLog[c] = "open" /\ connPc[c] = "reading"
        /\ connChunk[c] = WireChunk(127, 71, ScorePayload)
        /\ connLine[c] = << >>
        /\ connOut[c].out.kind = "Message30"

(***************************************************************************)
(* Properties of the minimum lengths (SpecTruncated).                      *)
(***************************************************************************)
\* The payload of a chunk that is a well-formed frame with a valid checksum.
PayloadOf(chunk) == SubSeq(chunk, 5, Len(chunk) - 2)
ValidFrameChunk(chunk) ==
    LET n == Len(chunk)
        x == Xor7(SubSeq(chunk, 2, n - 1))
    IN  /\ n >= 6
        /\ chunk[1] = 1 /\ chunk[3] = 2 /\ chunk[n - 1] = 3
        /\ chunk[n] = (IF x < 32 THEN x + 32 ELSE x)

\* The message a payload announces by its tag and the least length of that
\* message; "" and 0 for a payload without a recognised tag.
TaggedKind(p) ==
    IF Len(p) < 2 THEN ""
    ELSE IF <<p[1], p[2]>> = <<49, 56>> THEN "Message18"
    ELSE IF <<p[1], p[2]>> = <<51, 48>> THEN "Message30"
    ELSE IF <<p[1], p[2]>> = <<51, 49>> THEN "Message31"
    ELSE IF <<p[1], p[2]>> = <<53, 48>> THEN "Message50"
    ELSE ""
MinLenOf(kind) ==
    IF kind = "Message18" THEN 14
    ELSE IF kind = "Message30" THEN 9
    ELSE IF kind = "Message31" THEN 11
    ELSE IF kind = "Message50" THEN 5
    ELSE 0

\* Reading a valid frame whose payload has a recognised tag, or fewer than two
\* bytes: the message is decoded exactly when the payload has the least length
\* of its type; otherwise there is a warning and nothing decoded.  Either way
\* the decoder does not abort, the shared state is as before and the thread
\* keeps reading.
MinimumLengthRespected(c) ==
    LET p == PayloadOf(connChunk'[c])
        kind == TaggedKind(p)
        out == connOut'[c].out
    IN  (/\ ReadStep(c)
         /\ ValidFrameChunk(connChunk'[c])
         /\ (kind # "" \/ Len(p) < 2)) =>
            /\ connOut'[c].res.kind = "Ok"
            /\ connOut'[c].dispatched
            /\ IF kind # "" /\ Len(p) >= MinLenOf(kind)
               THEN out.kind = kind /\ out.message # << >>
               ELSE /\ out.kind \notin RecognisedKinds
                    /\ out.message = << >> /\ out.display = << >>
            /\ gameState' = gameState /\ lock' = lock
            /\ connPc'[c] = "reading"

\* C20: a valid frame with a recognised tag produces a decoded message exactly
\* when its payload has at least 14 ("18"), 9 ("30"), 11 ("31") or 5 ("50")
\* bytes; a shorter payload, one of fewer than 2 bytes included, reads no byte
\* past its end, produces nothing, leaves the game state unchanged and does
\* not end the connection.
C20_MinimumLengths == [][\A c \in Conns : MinimumLengthRespected(c)]_vars

\* A time payload of 13 bytes was read while the state is set: a warning, and
\* the thread is reading.
C20_Witness ==
    \E c \in Conns :
        /\ ValidFrameChunk(connChunk[c])
        /\ TaggedKind(PayloadOf(connChunk[c])) = "Message18"
        /\ Len(PayloadOf(connChunk[c])) = 13
        /\ connOut[c].out.kind = "Message Type 18 too short"
        /\ gameState.some
        /\ connPc[c] = "reading"

(***************************************************************************)
(* Properties of frames cut across two reads (SpecSplit).                  *)
(***************************************************************************)
\* The bytes of the last read and of this one make up one valid frame.
SplitAcrossReads(c) ==
    /\ ReadStep(c)
    /\ connChunk[c] # << >>
    /\ ValidFrameChunk(connChunk[c] \o connChunk'[c])

\* Five bytes with SOH, STX and ETX in place, for which the decoder aborts.
FiveByteFrame(chunk) ==
    Len(chunk) = 5 /\ chunk[1] = 1 /\ chunk[3] = 2 /\ chunk[4] = 3

\* The outcome of validation, from the bytes of the chunk alone.
Validated(chunk) ==
    IF ValidFrameChunk(chunk) THEN "Ok"
    ELSE IF FiveByteFrame(chunk) THEN "Panic"
    ELSE "Err"

\* A chunk that did not pass validation, and produced nothing.
Dropped(out) ==
    /\ out.res.kind # "Ok"
    /\ ~out.dispatched
    /\ out.out.kind \notin RecognisedKinds
    /\ out.out.message = << >> /\ out.out.display = << >>

NoPieceAccepted(c) ==
    /\ ReadStep(c) => connOut'[c] = DecodedChunks[connChunk'[c]]
    /\ SplitAcrossReads(c) => Dropped(connOut[c]) /\ Dropped(connOut'[c])

\* C21 as stated: what is decoded from a read depends on the bytes of that
\* read alone, and when one valid frame arrives cut in two at any point,
\* neither piece passes validation and nothing is produced from the frame.
C21_NoPieceAccepted == [][\A c \in Conns : NoPieceAccepted(c)]_vars

PieceDecodedAlone(c) ==
    /\ ReadStep(c) =>
          /\ connOut'[c] = DecodedChunks[connChunk'[c]]
          /\ connOut'[c].res.kind = Validated(connChunk'[c])
    /\ SplitAcrossReads(c) =>
          /\ connOut[c] = DecodedChunks[connChunk[c]]
          /\ connOut[c].res.kind = Validated(connChunk[c])
          /\ ~ValidFrameChunk(connChunk[c]) => Dropped(connOut[c])
          /\ ~ValidFrameChunk(connChunk'[c]) => Dropped(connOut'[c])

\* C21, amended: what is decoded from a read depends on the bytes of that read
\* alone and nothing is carried from one read to the next; when one valid
\* frame arrives cut in two, each piece is validated as a chunk of its own: it
\* passes exactly when it is by itself a frame with its sentinels in place and
\* a matching checksum, and is dropped otherwise.
C21_PieceDecodedAlone == [][\A c \in Conns : PieceDecodedAlone(c)]_vars

\* The rest of a frame cut after the byte before an SOH in its payload was
\* read after the head of that frame, and decoded as a shot-clock message.
C21_Witness ==
    \E c \in Conns :
        /\ connPc[c] = "reading"
        /\ connChunk[c] = InnerFrame
        /\ InnerFrame \notin SplitFrames
        /\ connOut[c].res.kind = "Ok"
        /\ connOut[c].out.kind = "Message50"

(***************************************************************************)
(* Bit 7 and the checksum (SpecCodec).                                     *)
(***************************************************************************)
\* The bytes with bit 7 of the byte at index i inverted.
Bit7Inverted(bytes, i) ==
    [bytes EXCEPT ![i] = IF @ >= 128 THEN @ - 128 ELSE @ + 128]

\* The indices, from 1, of the address, the control byte and the payload in a
\* chunk of n bytes: those before the ETX at n - 1 other than SOH and STX.
FieldIndices(n) == {i \in {2} \cup 4..(n - 2) : i <= n - 2}

\* The decoder treats the chunk with bit 7 of the byte at index i inverted as
\* it treated cData.
SameOutcome(i) ==
    LET other == parse_raw_data(Bit7Inverted(cData, i)) IN
    /\ other.kind = cRes.res.kind
    /\ other.err = cRes.res.err
    /\ other.frame.lrc = cRes.res.frame.lrc
    /\ (cRes.res.kind = "Ok") =>
          expected_lrc(other.frame) = expected_lrc(cRes.res.frame)

\* C22: compute_lrc_bytes ignores bit 7 of every byte: inverting bit 7 of the
\* byte at any position leaves its value unchanged; so two chunks that differ
\* only in bit 7 of an address, control or payload byte, with the same last
\* byte, are both accepted or both rejected, with the same error.
C22_Bit7Ignored ==
    /\ (cStep = "summed") =>
          \A i \in 1..Len(cData) :
              compute_lrc_bytes(Bit7Inverted(cData, i)) = cLrc
    /\ (cStep = "parsed") =>
          \A i \in FieldIndices(Len(cData)) : SameOutcome(i)

\* A built frame with a payload byte above 127 was accepted, and so is the
\* chunk with bit 7 of that byte cleared.
C22_Witness ==
    /\ DecodedBuilt
    /\ cRes.res.kind = "Ok"
    /\ \E i \in 5..(Len(cData) - 2) :
          /\ cData[i] = 177
          /\ Bit7Inverted(cData, i)[i] = 49
          /\ parse_raw_data(Bit7Inverted(cData, i)).kind = "Ok"

(***************************************************************************)
(* Release of the mutex by the query tasks (SpecStoreFair).                *)
(***************************************************************************)
\* The positions of a query task between state.lock() and the return of
\* handle_api_request, and those after the return.
InsideApi == {"locked", "api_write", "api_flush"}
Returned == {"done", "write_error", "flush_error"}

\* The holder of the mutex can always take a step, and a query task waiting
\* for a free mutex can take it.
NoDeadlock ==
    /\ \A q \in Queries :
          /\ (lock = QueryTask(q)) =>
                ENABLED (ApiFormat(q) \/ ApiWrite(q) \/ ApiWriteError(q)
                            \/ ApiFlush(q) \/ ApiFlushError(q))
          /\ (qPc[q] = "api" /\ lock = NoHolder) => ENABLED ApiLock(q)
    /\ \A a \in Appliers :
          (lock = ApplierTask(a)) =>
              ENABLED (ApplierWriteHome(a) \/ ApplierWriteAway(a))

\* A query task holds the mutex exactly between state.lock() and its return.
HeldOnlyInside ==
    \A q \in Queries :
        /\ (lock = QueryTask(q)) <=> (qPc[q] \in InsideApi)
        /\ (qPc[q] \in Returned) => lock # QueryTask(q)

\* Every socket write and flush that was started returns, with or without an
\* error.
WritesReturn ==
    \A q \in Queries :
        /\ WF_vars(ApiWrite(q) \/ ApiWriteError(q))
        /\ WF_vars(ApiFlush(q) \/ ApiFlushError(q))

\* C23: a query task gives the mutex back on every way out of
\* handle_api_request, after a write and flush that succeeded and after one
\* that failed; so when every started write returns, a mutex that is held
\* becomes free again, a query task waiting for it acquires it and returns, and
\* no task is left holding it; no deadlock is reachable.
C23_LockReleased ==
    /\ [](HeldOnlyInside /\ NoDeadlock)
    /\ WritesReturn =>
          /\ (lock # NoHolder) ~> (lock = NoHolder)
          /\ \A q \in Queries :
                /\ (qPc[q] = "api") ~> (lock = QueryTask(q))
                /\ (qPc[q] = "api") ~> (qPc[q] \in Returned /\ lock # QueryTask(q))

\* A query task has returned on a failed write while another, which asked for
\* the state as well, holds the mutex, and a third task has written the state.
C23_Witness ==
    \E q, r \in Queries :
        /\ q # r
        /\ qPc[q] = "write_error"
        /\ qPc[r] = "locked" /\ lock = QueryTask(r)
        /\ gameState.some
====
